---- MODULE Spec2Model ----
(***************************************************************************)
(* A model of classic_ir/IRSystem.py: the IRSystem object, its loading,    *)
(* indexing and weighting steps and its query operations.                  *)
(*                                                                         *)
(* Conventions.  Python lists are sequences; document IDs are Python's     *)
(* 0-based indices, so document d is docs[d + 1].  A title is a string,    *)
(* modelled as the sequence of its character codes and compared as Python  *)
(* compares strings.  A float produced by the code is an exact ratio of    *)
(* two small integers, [num, den]; 0.0 is [num |-> 0, den |-> 1].  A       *)
(* defaultdict is a function whose DOMAIN is its current key set.  Values  *)
(* in a returned list whose Python type matters are tagged: [list |-> x]   *)
(* is a list object, [int |-> n] an integer.                               *)
(***************************************************************************)
EXTENDS Integers, Sequences, FiniteSets, TLC

VARIABLES phase, listing, titles, docs, vocab, tf, inverted_index, tfidf,
          doc_tfidf, ret, firstRank

vars == <<phase, listing, titles, docs, vocab, tf, inverted_index, tfidf,
          doc_tfidf, ret, firstRank>>

(***************************************************************************)
(* Bounds of the model and constants of the program.                       *)
(***************************************************************************)
MaxDocs == 2
MaxLen == 1
MaxQuery == 1
MaxRankDocs == 11
TopK == 10
ExpectedDocs == 60

Tokens == {"a", "b"}
Terms == Tokens \cup {"z"}
TitlePool == {<<1>>, <<1, 2>>, <<2>>}
RankDocPool == {<<>>, <<"a">>}

SeqsUpTo(S, n) == UNION {[1..k -> S] : k \in 0..n}
Range(s) == {s[i] : i \in DOMAIN s}
Min(a, b) == IF a < b THEN a ELSE b

DocPool == SeqsUpTo(Tokens, MaxLen)
Queries == SeqsUpTo(Terms, MaxQuery)
RankQueries == {<<>>, <<"a">>, <<"z">>, <<"a", "z">>}

\* What the directory readers hand to read_data: (title, tokens) pairs in the
\* order os.listdir produced them, one per file, titles unique.
Listings ==
  {L \in SeqsUpTo(TitlePool \X DocPool, MaxDocs) :
     \A i, j \in DOMAIN L : L[i][1] = L[j][1] => i = j}

RankSizes == {0, 1} \cup (TopK..MaxRankDocs)

RankListings ==
  UNION {{[i \in 1..n |-> <<(<<i>>), D[i]>>] : D \in [1..n -> RankDocPool]} :
           n \in RankSizes}

EmptyDict == [x \in {} |-> 0]
Zero == [num |-> 0, den |-> 1]
NoCall == [op |-> "none", arg |-> <<>>, status |-> "ok", value |-> <<>>]
Return(op, arg, status, value) ==
  [op |-> op, arg |-> arg, status |-> status, value |-> value]

(***************************************************************************)
(* Python built-ins the code relies on.                                    *)
(***************************************************************************)

\* str.__lt__: lexicographic order on character codes, a proper prefix first.
LexLess(s, t) ==
  \E k \in 1..(Min(Len(s), Len(t)) + 1) :
     /\ \A i \in 1..(k - 1) : s[i] = t[i]
     /\ \/ k > Len(s) /\ k <= Len(t)
        \/ k <= Len(s) /\ k <= Len(t) /\ s[k] < t[k]

\* sorted() is stable: an element goes behind every element already placed
\* that does not come after it, so equal keys keep their input order.
\* InsertAt(s, k, x) is s with x placed behind its first k elements.
InsertAt(s, k, x) == SubSeq(s, 1, k) \o <<x>> \o SubSeq(s, k + 1, Len(s))

\* [idx for idx, title in sorted(enumerate(titles), key=lambda xx: xx[1])]
\* for the first m titles: ascending, as 1-based positions.
RECURSIVE sorted_by_title(_, _)
sorted_by_title(ts, m) ==
  IF m = 0 THEN <<>>
  ELSE LET placed == sorted_by_title(ts, m - 1)
           k == Cardinality({p \in DOMAIN placed :
                               ~LexLess(ts[m], ts[placed[p]])})
       IN  InsertAt(placed, k, m)

\* A read_data that keeps the documents in the order they were listed.
ordering_as_listed(ts) == [p \in DOMAIN ts |-> p - 1]

ordering_by_title(ts) ==
  LET order == sorted_by_title(ts, Len(ts))
  IN  [p \in DOMAIN order |-> order[p] - 1]

ScoreLess(x, y) == x.num * y.den < y.num * x.den
ScoreEq(x, y) == x.num * y.den = y.num * x.den

\* A descending sort that is not stable: an element goes in front of its
\* equals, as sorting ascending and reversing the list would place it.
RECURSIVE sorted_by_score_reversed(_, _)
sorted_by_score_reversed(scores, m) ==
  IF m = 0 THEN <<>>
  ELSE LET placed == sorted_by_score_reversed(scores, m - 1)
           k == Cardinality({p \in DOMAIN placed :
                               ScoreLess(scores[m], scores[placed[p]])})
       IN  InsertAt(placed, k, m)

\* [idx for idx, sim in sorted(enumerate(scores), key=lambda xx: xx[1],
\*                             reverse=True)]
\* for the first m scores: descending, and reverse=True keeps the input
\* order of equal keys.
RECURSIVE sorted_by_score(_, _)
sorted_by_score(scores, m) ==
  IF m = 0 THEN <<>>
  ELSE LET placed == sorted_by_score(scores, m - 1)
           k == Cardinality({p \in DOMAIN placed :
                               ~ScoreLess(scores[placed[p]], scores[m])})
       IN  InsertAt(placed, k, m)

ranking_by_score(scores) ==
  LET order == sorted_by_score(scores, Len(scores))
  IN  [p \in DOMAIN order |-> order[p] - 1]

\* sorted(collection of ints): ascending, duplicates kept.
sorted_ints(s) ==
  LET n == Len(s)
      pos(i) == Cardinality({j \in 1..n : s[j] < s[i]})
                + Cardinality({j \in 1..(i - 1) : s[j] = s[i]})
  IN  [p \in 1..n |-> s[CHOOSE i \in 1..n : pos(i) = p - 1]]

\* dict.__getitem__: a missing key raises KeyError.
dict_get(d, k, dflt) ==
  IF k \in DOMAIN d
    THEN [status |-> "ok", value |-> d[k]]
    ELSE [status |-> "KeyError", value |-> dflt]

\* defaultdict.__getitem__: the value read; a missing key reads the default.
defaultdict_get(d, k, dflt) ==
  IF k \in DOMAIN d
    THEN [status |-> "ok", value |-> d[k]]
    ELSE [status |-> "ok", value |-> dflt]

\* defaultdict.__getitem__: the dictionary afterwards; a missing key is
\* inserted with the default.
defaultdict_touch(d, k, dflt) ==
  IF k \in DOMAIN d
    THEN d
    ELSE [x \in DOMAIN d \cup {k} |-> IF x = k THEN dflt ELSE d[x]]

\* Counter.__getitem__: a missing key reads 0 and is not inserted.
counter_get(c, k) == IF k \in DOMAIN c THEN c[k] ELSE Zero

(***************************************************************************)
(* IRSystem                                                                *)
(***************************************************************************)

\* get_uniq_words; self.vocab = list(set) is kept as the set, since no code
\* depends on the order of the list.
get_uniq_words(ds) == UNION {Range(ds[i]) : i \in DOMAIN ds}

Init ==
  /\ phase = "new"
  /\ listing = <<>>
  /\ titles = <<>>
  /\ docs = <<>>
  /\ vocab = {}
  /\ tf = EmptyDict
  /\ inverted_index = EmptyDict
  /\ tfidf = EmptyDict
  /\ doc_tfidf = EmptyDict
  /\ ret = Return("__init__", <<>>, "ok", <<>>)
  /\ firstRank = NoCall

\* read_data: L is what the reader returned; stemmed tells which reader ran.
\* __read_stemmed_data raises unless it found exactly ExpectedDocs files.
read_data(L, stemmed) ==
  /\ phase = "new"
  /\ IF stemmed /\ Len(L) # ExpectedDocs
       THEN /\ ret' = Return("read_data", <<>>, "Exception", <<>>)
            /\ UNCHANGED <<phase, listing, titles, docs, vocab>>
       ELSE LET ts == [i \in 1..Len(L) |-> L[i][1]]
                ds == [i \in 1..Len(L) |-> L[i][2]]
                ordering == ordering_by_title(ts)
                newdocs == [d \in 1..Len(ds) |-> ds[ordering[d] + 1]]
            IN  /\ listing' = L
                /\ titles' = [d \in 1..Len(ds) |-> ts[ordering[d] + 1]]
                /\ docs' = newdocs
                /\ vocab' = get_uniq_words(newdocs)
                /\ phase' = "loaded"
                /\ ret' = Return("read_data", <<>>, "ok", <<>>)
  /\ UNCHANGED <<tf, inverted_index, tfidf, doc_tfidf, firstRank>>

index ==
  /\ phase = "loaded"
  /\ tf' = EmptyDict
  /\ inverted_index' = [word \in vocab |-> <<>>]
  /\ phase' = "indexed"
  /\ ret' = Return("index", <<>>, "ok", <<>>)
  /\ UNCHANGED <<listing, titles, docs, vocab, tfidf, doc_tfidf, firstRank>>

compute_tfidf ==
  /\ phase = "indexed"
  /\ LET N == Len(docs)
     IN  tfidf' = [i \in (IF vocab = {} THEN {} ELSE 0..(N - 1)) |->
                     [word \in vocab |-> Zero]]
  /\ doc_tfidf' = EmptyDict
  /\ phase' = "weighted"
  /\ ret' = Return("compute_tfidf", <<>>, "ok", <<>>)
  /\ UNCHANGED <<listing, titles, docs, vocab, tf, inverted_index, firstRank>>

\* The body of get_posting, called under the name op.
posting_call(op, arg, word) ==
  /\ LET r == defaultdict_get(inverted_index, word, <<>>)
     IN  ret' = Return(op, arg, r.status,
                       IF r.status = "ok" THEN sorted_ints(r.value) ELSE <<>>)
  /\ inverted_index' = defaultdict_touch(inverted_index, word, <<>>)
  /\ UNCHANGED <<phase, listing, titles, docs, vocab, tf, tfidf, doc_tfidf,
                 firstRank>>

get_posting(word) ==
  /\ phase = "weighted"
  /\ posting_call("get_posting", word, word)

\* PorterStemmer.stem: some term, not known here.
stem(word) == Terms

get_posting_unstemmed(word) ==
  /\ phase = "weighted"
  /\ \E stemmed \in stem(word) :
        posting_call("get_posting_unstemmed", word, stemmed)

boolean_retrieve(query) ==
  /\ phase = "weighted"
  /\ ret' = Return("boolean_retrieve", query, "ok",
                   [i \in 1..Len(docs) |-> [list |-> docs[i]]])
  /\ UNCHANGED <<phase, listing, titles, docs, vocab, tf, inverted_index,
                 tfidf, doc_tfidf, firstRank>>

get_tfidf(word, document) ==
  /\ phase = "weighted"
  /\ LET r == defaultdict_get(tfidf, document, EmptyDict)
     IN  ret' = Return("get_tfidf", <<word, document>>, r.status,
                       counter_get(r.value, word))
  /\ tfidf' = defaultdict_touch(tfidf, document, EmptyDict)
  /\ UNCHANGED <<phase, listing, titles, docs, vocab, tf, inverted_index,
                 doc_tfidf, firstRank>>

\* The similarity without its guard against an empty union.
jaccard_unguarded(query, doc) ==
  LET query_set == Range(query)
      doc_set == Range(doc)
  IN  [num |-> Cardinality(query_set \cap doc_set),
       den |-> Cardinality(query_set \cup doc_set)]

\* intersection / union if union != 0 else 0.0
jaccard(query, doc) ==
  LET query_set == Range(query)
      doc_set == Range(doc)
      intersection == Cardinality(query_set \cap doc_set)
      union == Cardinality(query_set \cup doc_set)
  IN  IF union # 0 THEN [num |-> intersection, den |-> union] ELSE Zero

rank_scores(query) == [d \in 1..Len(docs) |-> jaccard(query, docs[d])]

\* The value rank_retrieve hands back: ranking[i] for i in range(10) fails
\* with IndexError as soon as i reaches len(self.docs).
rank_result(query) ==
  LET scores == rank_scores(query)
      ranking == ranking_by_score(scores)
  IN  IF Len(ranking) < TopK
        THEN Return("rank_retrieve", query, "IndexError", <<>>)
        ELSE Return("rank_retrieve", query, "ok",
                    [i \in 1..TopK |-> <<ranking[i], scores[ranking[i] + 1]>>])

\* firstRank remembers the first call made, for comparing later ones with it.
rank_retrieve(query) ==
  /\ phase = "weighted"
  /\ LET r == rank_result(query)
     IN  /\ ret' = r
         /\ firstRank' = IF firstRank.op = "none" THEN r ELSE firstRank
  /\ UNCHANGED <<phase, listing, titles, docs, vocab, tf, inverted_index,
                 tfidf, doc_tfidf>>

Next ==
  \/ phase = "new" /\ \E L \in Listings, stemmed \in BOOLEAN :
                        read_data(L, stemmed)
  \/ index
  \/ compute_tfidf
  \/ \E word \in Terms : get_posting(word)
  \/ \E word \in Terms : get_posting_unstemmed(word)
  \/ \E query \in Queries : boolean_retrieve(query)
  \/ \E word \in Terms, document \in 0..Len(docs) : get_tfidf(word, document)

Spec == Init /\ [][Next]_vars

NextRank ==
  \/ phase = "new" /\ \E L \in RankListings, stemmed \in BOOLEAN :
                        read_data(L, stemmed)
  \/ index
  \/ compute_tfidf
  \/ \E query \in RankQueries : rank_retrieve(query)

SpecRank == Init /\ [][NextRank]_vars

(***************************************************************************)
(* Notions the claims are stated in.                                       *)
(***************************************************************************)
NumDocs == Len(docs)
DocIDs == 0..(NumDocs - 1)

\* tf(d, t): how often term t occurs in the token sequence of document d.
TermCount(d, t) == Cardinality({i \in DOMAIN docs[d + 1] : docs[d + 1][i] = t})

\* df(t): the number of documents t occurs in.
DocFreq(t) == Cardinality({d \in DocIDs : TermCount(d, t) > 0})

StrictlyAscending(s) == \A i, j \in DOMAIN s : i < j => s[i] < s[j]

\* The documents in which every term of the query occurs.
Matching(query) == {d \in DocIDs : \A t \in Range(query) : TermCount(d, t) > 0}

\* 10000 * ln(n / m), rounded, for the corpus sizes within the bounds: the
\* precision run_tests compares weights at (epsilon = 1e-4).
LogE4(n, m) ==
  CASE n = m -> 0
    [] n = 2 /\ m = 1 -> 6931
    [] n = 3 /\ m = 1 -> 10986
    [] n = 3 /\ m = 2 -> 4055
    [] n = 4 /\ m = 1 -> 13863
    [] n = 4 /\ m = 2 -> 6931
    [] n = 4 /\ m = 3 -> 2877

\* tf(d, t) * idf(t) in units of 1e-4.
WeightE4(d, t) ==
  IF TermCount(d, t) = 0 THEN 0
  ELSE TermCount(d, t) * LogE4(NumDocs, DocFreq(t))

\* The float x is within 1e-4 of e / 10000.
WithinEpsilon(x, e) ==
  /\ x.den > 0
  /\ x.num * 10000 - e * x.den <= x.den
  /\ e * x.den - x.num * 10000 <= x.den

RankReturned == ret.op = "rank_retrieve" /\ ret.status = "ok"
RankedIDs == {ret.value[i][1] : i \in DOMAIN ret.value}

(***************************************************************************)
(* The claims.                                                             *)
(***************************************************************************)

\* C1: after index(), for every vocabulary term t and document ID d, d is in
\* get_posting(t) iff t occurs in document d, and the returned posting list is
\* ascending without duplicates.
C1_PostingIffOccurs ==
  (ret.op = "get_posting" /\ ret.arg \in vocab) =>
     /\ ret.status = "ok"
     /\ StrictlyAscending(ret.value)
     /\ \A d \in DocIDs : d \in Range(ret.value) <=> TermCount(d, ret.arg) > 0

\* C2: for a non-empty query boolean_retrieve returns exactly the IDs of the
\* documents in which all query terms occur.
C2_BooleanIsIntersection ==
  (ret.op = "boolean_retrieve" /\ Len(ret.arg) > 0) =>
     /\ ret.status = "ok"
     /\ \A i \in DOMAIN ret.value : DOMAIN ret.value[i] = {"int"}
     /\ {ret.value[i].int : i \in DOMAIN ret.value} = Matching(ret.arg)

\* C3: boolean_retrieve on the empty query returns the empty result.
C3_EmptyQueryEmptyResult ==
  (ret.op = "boolean_retrieve" /\ ret.arg = <<>>) =>
     ret.status = "ok" /\ ret.value = <<>>

\* C4: rank_retrieve returns exactly min(TopK, N) entries in non-increasing
\* score order, and does not fail on a corpus of fewer than TopK documents.
C4_RankReturnsMinKN ==
  ret.op = "rank_retrieve" =>
     /\ ret.status = "ok"
     /\ Len(ret.value) = Min(TopK, NumDocs)
     /\ \A i, j \in DOMAIN ret.value :
           i < j => ~ScoreLess(ret.value[i][2], ret.value[j][2])

\* C5: in the output of rank_retrieve equal scores come in ascending document
\* ID order, no document left out ties with a returned document of larger ID,
\* and a call with the query of the first call returns what the first call
\* returned.
C5_TiesByAscendingID ==
  RankReturned =>
     /\ \A i, j \in DOMAIN ret.value :
           (i < j /\ ScoreEq(ret.value[i][2], ret.value[j][2]))
              => ret.value[i][1] < ret.value[j][1]
     /\ \A x \in DocIDs \ RankedIDs : \A j \in DOMAIN ret.value :
           ScoreEq(jaccard(ret.arg, docs[x + 1]), ret.value[j][2])
              => ret.value[j][1] < x
     /\ firstRank.arg = ret.arg => ret = firstRank

\* C5 happens: more documents than are returned, a tie inside the output and
\* a tie between a returned document and one left out.
C5_Witness ==
  /\ RankReturned
  /\ NumDocs > TopK
  /\ firstRank.arg = ret.arg
  /\ \E i, j \in DOMAIN ret.value :
        i < j /\ ScoreEq(ret.value[i][2], ret.value[j][2])
  /\ \E x \in DocIDs \ RankedIDs : \E j \in DOMAIN ret.value :
        ScoreEq(jaccard(ret.arg, docs[x + 1]), ret.value[j][2])

\* C6: every score rank_retrieve returns is a number in [0, 1], and it is 0
\* when the query or the document has no terms.
C6_ScoresInUnitInterval ==
  RankReturned =>
     \A i \in DOMAIN ret.value :
        LET d == ret.value[i][1]
            score == ret.value[i][2]
        IN  /\ score.den > 0
            /\ 0 <= score.num
            /\ score.num <= score.den
            /\ (ret.arg = <<>> \/ docs[d + 1] = <<>>) => score.num = 0

\* C6 happens: an empty query ranked against a corpus holding an empty and a
\* non-empty document.
C6_Witness ==
  /\ RankReturned
  /\ ret.arg = <<>>
  /\ \E i, j \in DOMAIN ret.value :
        docs[ret.value[i][1] + 1] = <<>> /\ docs[ret.value[j][1] + 1] # <<>>

\* C7: after compute_tfidf(), get_tfidf(t, d) is tf(d, t) * log(N / df(t)):
\* 0 for a term absent from d, non-zero for a term of d that is not in every
\* document.
C7_WeightIsTfIdf ==
  (ret.op = "get_tfidf" /\ ret.arg[2] \in DocIDs) =>
     /\ ret.status = "ok"
     /\ WithinEpsilon(ret.value, WeightE4(ret.arg[2], ret.arg[1]))

\* C8: once index() and compute_tfidf() have completed, no query changes the
\* posting table, the weight table, the documents or the vocabulary, key sets
\* included.
C8_QueriesReadOnly ==
  [][(phase = "weighted" /\ phase' = "weighted") =>
        /\ inverted_index' = inverted_index
        /\ tfidf' = tfidf
        /\ tf' = tf
        /\ doc_tfidf' = doc_tfidf
        /\ docs' = docs
        /\ titles' = titles
        /\ vocab' = vocab]_vars

\* C9: get_posting of a term outside the vocabulary returns the empty posting
\* list and does not raise.
C9_UnknownTermEmptyPosting ==
  (ret.op = "get_posting" /\ ret.arg \notin vocab) =>
     ret.status = "ok" /\ ret.value = <<>>

\* C9 happens: a term no document holds was looked up in a non-empty corpus
\* with a non-empty vocabulary.
C9_Witness ==
  /\ ret.op = "get_posting"
  /\ ret.arg \notin vocab
  /\ vocab # {}
  /\ ret.value = <<>>

\* C10: after read_data() the titles are in ascending order, titles and docs
\* are a permutation of the loaded (title, tokens) pairs with docs[i] the
\* tokens loaded under titles[i], and the ID of a document is the number of
\* loaded titles below its own, whatever the order of the listing.
C10_IDsByTitleOrder ==
  phase # "new" =>
     /\ Len(titles) = Len(listing)
     /\ Len(docs) = Len(listing)
     /\ \A i, j \in DOMAIN titles : i < j => LexLess(titles[i], titles[j])
     /\ \A j \in DOMAIN listing : \E i \in DOMAIN titles :
           listing[j] = <<titles[i], docs[i]>>
     /\ \A i \in DOMAIN titles :
           /\ \E j \in DOMAIN listing : listing[j] = <<titles[i], docs[i]>>
           /\ Cardinality({j \in DOMAIN listing :
                             LexLess(listing[j][1], titles[i])}) = i - 1

\* C10 happens: two documents with different tokens were listed with the
\* larger title first.
C10_Witness ==
  /\ phase # "new"
  /\ Len(listing) >= 2
  /\ LexLess(listing[2][1], listing[1][1])
  /\ listing[1][2] # listing[2][2]
  /\ docs[1] = listing[2][2]

====
